---- MODULE Spec2Model ----
(***************************************************************************)
(* Model of backend/app.py of visual-change-detection: the ignore-region   *)
(* mask editor (_apply_ignore_rects), the diff pipeline (_compute_diff)    *)
(* and the comparison store (create_comparison, get_comparison,            *)
(* list_comparisons over STORE and HISTORY).                               *)
(*                                                                         *)
(* Images and masks are sequences of rows, m[y][x] with y in 1..h and      *)
(* x in 1..w; the code's 0-based cell (cx, cy) is m[cy + 1][cx + 1].       *)
(* A normalized coordinate is an integer count of quarters (n stands for   *)
(* the JSON number n/4), so that every product and sum the code forms is   *)
(* exact in floating point.                                                *)
(***************************************************************************)
EXTENDS Integers, Sequences, FiniteSets, TLC

VARIABLES
    mask,        \* the mask buffer _apply_ignore_rects edits in place; in
                 \* _compute_diff, the mask it returns
    mask0,       \* the buffer's content before the first call
    rects,       \* the region list passed to _apply_ignore_rects
    calls,       \* how many times the list has been applied to mask
    maskP,       \* a second copy of mask0, edited with a permuted list
    permDone,    \* whether the permuted list has been applied to maskP
    perm,        \* the permutation it was reordered by
    before,      \* _compute_diff: argument before
    after,       \* _compute_diff: argument after
    threshold,   \* _compute_diff: argument threshold
    ignore_rects,\* _compute_diff: argument ignore_rects
    pc,          \* "call" before _compute_diff returns, "done" after
    gray,        \* _compute_diff: local gray
    raw,         \* _compute_diff: local mask as cv2.threshold returns it
    opened,      \* _compute_diff: local mask as cv2.morphologyEx returns it
    changed_pixels, \* _compute_diff: local changed_pixels
    diff_pct,    \* _compute_diff: returned diff_pct, as <<numerator, denominator>>
    vis,         \* _compute_diff: returned vis
    STORE,       \* the in-memory store: comp_id -> record
    HISTORY,     \* deque(maxlen=50) of comp_ids, oldest first
    disk,        \* DATA_ROOT: comp_id -> what the directory holds
    nextId,      \* the next fresh comp_id (uuid4 modelled as a counter)
    resp         \* the last response sent

ignoreVars == <<mask, mask0, rects, calls, maskP, permDone, perm>>
diffVars == <<before, after, threshold, ignore_rects, pc, gray, raw, opened,
             changed_pixels, diff_pct, vis>>
serverVars == <<STORE, HISTORY, disk, nextId, resp>>
vars == <<mask, mask0, rects, calls, maskP, permDone, perm, before, after, threshold,
          ignore_rects, pc, gray, raw, opened, changed_pixels, diff_pct, vis,
          STORE, HISTORY, disk, nextId, resp>>

\* ------------------------------------------------------------------ bounds

\* Width and height of the masks and images the model draws.
ImgW == 3
ImgH == 2
\* Longest region list drawn for the list-level properties.
MaxRects == 2
\* Most comparisons created in one run (HISTORY holds 50: one run overflows it).
MaxCreate == 52

\* ------------------------------------------------------ program constants

\* HISTORY = deque(maxlen=50)
HistoryMaxLen == 50

\* ------------------------------------------------------------- arithmetic

Min(a, b) == IF a < b THEN a ELSE b
Max(a, b) == IF a > b THEN a ELSE b

\* Python's round() on the exact value n/d (d > 0): to nearest, ties to even.
RoundHalfEven(n, d) ==
    LET q == n \div d
        r == n % d
    IN  IF 2 * r < d THEN q
        ELSE IF 2 * r > d THEN q + 1
        ELSE IF q % 2 = 0 THEN q ELSE q + 1

\* int(round(v)) for v = n quarters.
RoundQ(n) == RoundHalfEven(n, 4)

\* ------------------------------------------------- _apply_ignore_rects

Fields == {"x", "y", "w", "h"}

\* dict.get(k, d) with a default other than 0: a faulty variant of Get.
GetDefaultOne(r, k, d) == IF k \in DOMAIN r THEN r[k] ELSE 4

\* r.get(k, d)
Get(r, k, d) == IF k \in DOMAIN r THEN r[k] ELSE d

Height(m) == Len(m)
Width(m) == Len(m[1])

\* The right and bottom edges clamped to w - 1 and h - 1: a faulty variant of ClampRect.
ClampRectShort(r, w, h) ==
    [x1 |-> Max(0, Min(w - 1, RoundQ(Get(r, "x", 0) * w))),
     y1 |-> Max(0, Min(h - 1, RoundQ(Get(r, "y", 0) * h))),
     x2 |-> Max(0, Min(w - 1, RoundQ((Get(r, "x", 0) + Get(r, "w", 0)) * w))),
     y2 |-> Max(0, Min(h - 1, RoundQ((Get(r, "y", 0) + Get(r, "h", 0)) * h)))]

\* x1, y1, x2, y2 of one region on a w x h mask.
ClampRect(r, w, h) ==
    [x1 |-> Max(0, Min(w - 1, RoundQ(Get(r, "x", 0) * w))),
     y1 |-> Max(0, Min(h - 1, RoundQ(Get(r, "y", 0) * h))),
     x2 |-> Max(0, Min(w, RoundQ((Get(r, "x", 0) + Get(r, "w", 0)) * w))),
     y2 |-> Max(0, Min(h, RoundQ((Get(r, "y", 0) + Get(r, "h", 0)) * h)))]

\* Whether the 0-based cell (cx, cy) lies in the slice [y1:y2, x1:x2].
InSlice(c, cx, cy) == cx >= c.x1 /\ cx < c.x2 /\ cy >= c.y1 /\ cy < c.y2

\* A region that flips its cells instead of clearing them: a faulty variant of IgnoreRect.
IgnoreRectFlip(m, r) ==
    LET c == ClampRect(r, Width(m), Height(m))
    IN  IF c.y2 > c.y1 /\ c.x2 > c.x1
        THEN [y \in 1..Height(m) |-> [x \in 1..Width(m) |->
                 IF InSlice(c, x - 1, y - 1) THEN 255 - m[y][x] ELSE m[y][x]]]
        ELSE m

\* The loop body: one region applied to the mask.
IgnoreRect(m, r) ==
    LET c == ClampRect(r, Width(m), Height(m))
    IN  IF c.y2 > c.y1 /\ c.x2 > c.x1
        THEN [y \in 1..Height(m) |-> [x \in 1..Width(m) |->
                 IF InSlice(c, x - 1, y - 1) THEN 0 ELSE m[y][x]]]
        ELSE m

RECURSIVE ApplyIgnoreRects(_, _)
\* _apply_ignore_rects(mask, rects): the regions in list order.
ApplyIgnoreRects(m, rs) ==
    IF rs = <<>> THEN m
    ELSE ApplyIgnoreRects(IgnoreRect(m, Head(rs)), Tail(rs))

\* ------------------------------------------- inputs of _apply_ignore_rects

\* Coordinate values, in quarters: -0.5, 0, 0.25, 0.5, 0.75, 1, 1.5.
Coords == {-2, 0, 1, 2, 3, 4, 6}

\* Every region object over Coords, with any subset of the fields present.
Regions == UNION {[S -> Coords] : S \in SUBSET Fields}

Region(x, y, w, h) == [k \in Fields |->
    IF k = "x" THEN x ELSE IF k = "y" THEN y ELSE IF k = "w" THEN w ELSE h]

\* The spec's example {x:0.5, y:0.5, w:1.0, h:1.0}.
ExampleRegion == Region(2, 2, 4, 4)
FullFrame == Region(0, 0, 4, 4)

\* Regions for the list-level properties: overlapping, and one starting at the
\* right edge, one with a field missing.
ListRegions ==
    {Region(0, 0, 2, 4), Region(1, 2, 3, 2), Region(4, 0, 2, 4),
     [k \in {"y", "w", "h"} |-> IF k = "y" THEN 0 ELSE IF k = "w" THEN 4 ELSE 2]}

SeqsUpTo(S, n) == UNION {[1..k -> S] : k \in 0..n}

RectLists == {<<r>> : r \in Regions} \cup SeqsUpTo(ListRegions, MaxRects)

Uniform(w, h, v) == [y \in 1..h |-> [x \in 1..w |-> v]]
Checker(w, h, p) == [y \in 1..h |-> [x \in 1..w |->
                        IF (x + y) % 2 = p THEN 255 ELSE 0]]

\* The masks drawn: all changed, none changed, and the two checkerboards, so
\* that every cell is seen both changed and unchanged, next to cells that differ.
Masks == {Uniform(ImgW, ImgH, 255), Uniform(ImgW, ImgH, 0),
          Checker(ImgW, ImgH, 0), Checker(ImgW, ImgH, 1)}

\* The list rs reordered by the permutation p of its indices.
Permute(rs, p) == [i \in 1..Len(rs) |-> rs[p[i]]]
Perms(n) == {p \in [1..n -> 1..n] : \A i, j \in 1..n : p[i] = p[j] => i = j}

\* ------------------------------------------------------------ idle values

IgnoreIdle ==
    /\ mask = <<>> /\ mask0 = <<>> /\ rects = <<>>
    /\ calls = 0 /\ maskP = <<>> /\ permDone = FALSE /\ perm = <<>>

NoLocals ==
    /\ gray = <<>> /\ raw = <<>> /\ opened = <<>>
    /\ changed_pixels = 0 /\ diff_pct = <<0, 1>> /\ vis = <<>>

DiffIdle ==
    /\ before = <<>> /\ after = <<>> /\ threshold = 0
    /\ ignore_rects = <<>> /\ pc = "idle" /\ NoLocals

ServerIdle ==
    /\ STORE = <<>> /\ HISTORY = <<>> /\ disk = <<>>
    /\ nextId = 1 /\ resp = [op |-> "none"]

\* ------------------------------------------ calls of _apply_ignore_rects

InitIgnore ==
    /\ mask \in Masks
    /\ mask0 = mask
    /\ maskP = mask
    /\ rects \in RectLists
    /\ calls = 0
    /\ permDone = FALSE
    /\ perm = <<>>
    /\ DiffIdle /\ ServerIdle

\* _apply_ignore_rects(mask, rects) on the buffer, a first or a second time.
CallApplyIgnoreRects ==
    /\ calls < 2
    /\ mask' = ApplyIgnoreRects(mask, rects)
    /\ calls' = calls + 1
    /\ UNCHANGED <<mask0, rects, maskP, permDone, perm>>
    /\ UNCHANGED diffVars /\ UNCHANGED serverVars

\* _apply_ignore_rects on the second copy, with the list reordered by p.
CallApplyPermuted(p) ==
    /\ ~permDone
    /\ maskP' = ApplyIgnoreRects(maskP, Permute(rects, p))
    /\ permDone' = TRUE
    /\ perm' = p
    /\ UNCHANGED <<mask, mask0, rects, calls>>
    /\ UNCHANGED diffVars /\ UNCHANGED serverVars

NextIgnore ==
    \/ CallApplyIgnoreRects
    \/ \E p \in Perms(Len(rects)) : CallApplyPermuted(p)

SpecIgnore == InitIgnore /\ [][NextIgnore]_vars

\* --------------------------------------------------------- _compute_diff

Abs(a) == IF a < 0 THEN -a ELSE a

\* cv2.absdiff on 3-channel uint8 images: |a - b| per channel.
AbsDiff(a, b) ==
    [y \in 1..Height(a) |-> [x \in 1..Width(a) |->
        [c \in 1..3 |-> Abs(a[y][x][c] - b[y][x][c])]]]

\* cv2.cvtColor(.., COLOR_BGR2GRAY) on uint8: fixed-point luma weights
\* 0.114 B + 0.587 G + 0.299 R, rounded to nearest.
BGR2Gray(img) ==
    [y \in 1..Height(img) |-> [x \in 1..Width(img) |->
        (img[y][x][1] * 3735 + img[y][x][2] * 19235 + img[y][x][3] * 9798
            + 16384) \div 32768]]

\* A threshold that marks magnitudes at or above t: a faulty variant of Threshold.
ThresholdAtLeast(g, t) ==
    [y \in 1..Height(g) |-> [x \in 1..Width(g) |->
        IF g[y][x] >= t THEN 255 ELSE 0]]

\* cv2.THRESH_BINARY_INV in place of THRESH_BINARY: a faulty variant of Threshold.
ThresholdInv(g, t) ==
    [y \in 1..Height(g) |-> [x \in 1..Width(g) |->
        IF g[y][x] > t THEN 0 ELSE 255]]

\* cv2.threshold(gray, t, 255, cv2.THRESH_BINARY)
Threshold(g, t) ==
    [y \in 1..Height(g) |-> [x \in 1..Width(g) |->
        IF g[y][x] > t THEN 255 ELSE 0]]

\* The values of m in the 3 x 3 neighbourhood of (x, y) that lie inside the
\* grid: cells outside it never decide an erosion or a dilation (OpenCV's
\* default border value for morphology).
Neighbourhood(m, x, y) ==
    {m[ny][nx] : ny \in {n \in (y - 1)..(y + 1) : n >= 1 /\ n <= Height(m)},
                 nx \in {n \in (x - 1)..(x + 1) : n >= 1 /\ n <= Width(m)}}

SetMin(S) == CHOOSE v \in S : \A u \in S : v <= u
SetMax(S) == CHOOSE v \in S : \A u \in S : v >= u

Erode(m) ==
    [y \in 1..Height(m) |-> [x \in 1..Width(m) |-> SetMin(Neighbourhood(m, x, y))]]
Dilate(m) ==
    [y \in 1..Height(m) |-> [x \in 1..Width(m) |-> SetMax(Neighbourhood(m, x, y))]]

\* cv2.morphologyEx(mask, cv2.MORPH_OPEN, ones((3, 3)), iterations=1)
MorphOpen(m) == Dilate(Erode(m))

\* cv2.countNonZero(mask)
CountNonZero(m) ==
    Cardinality({c \in (1..Width(m)) \X (1..Height(m)) : m[c[2]][c[1]] # 0})

\* (changed_pixels / total_pixels) * 100.0, kept exact as <<numerator, denominator>>.
DiffPct(changed, total) == <<changed * 100, total>>

\* np.where(mask_3c > 0, red_layer, zeros): BGR red where the mask is set.
Overlay(m) ==
    [y \in 1..Height(m) |-> [x \in 1..Width(m) |->
        IF m[y][x] > 0 THEN <<0, 0, 255>> ELSE <<0, 0, 0>>]]

\* saturate_cast<uchar>: to nearest, clipped to 0..255.
Saturate(n, d) == Max(0, Min(255, RoundHalfEven(n, d)))

\* cv2.addWeighted(a, 0.7, b, 0.3, 0)
AddWeighted(a, b) ==
    [y \in 1..Height(a) |-> [x \in 1..Width(a) |->
        [c \in 1..3 |-> Saturate(7 * a[y][x][c] + 3 * b[y][x][c], 10)]]]

\* ------------------------------------------------- inputs of _compute_diff

Black == <<0, 0, 0>>
Dim == <<0, 0, 100>>
White == <<255, 255, 255>>

Palette == {Black, Dim, White}

\* The grayscale magnitudes the palette gives are 0, 30, 225 and 255.
Thresholds == {0, 30, 225, 255}

\* An image of colour bg with the block [x1, x2] x [y1, y2] in colour fg.
BlockImage(bg, fg, x1, x2, y1, y2) ==
    [y \in 1..ImgH |-> [x \in 1..ImgW |->
        IF x1 <= x /\ x <= x2 /\ y1 <= y /\ y <= y2 THEN fg ELSE bg]]

\* A checkerboard of the colours p and q.
CheckerImage(p, q) ==
    [y \in 1..ImgH |-> [x \in 1..ImgW |-> IF (x + y) % 2 = 0 THEN p ELSE q]]

\* The after images drawn: every block of one colour on another (single
\* pixels, lines, larger blocks, solid images) and the checkerboards.
Images ==
    {BlockImage(bg, fg, x1, x2, y1, y2) :
        bg \in Palette, fg \in Palette,
        x1 \in 1..ImgW, x2 \in 1..ImgW, y1 \in 1..ImgH, y2 \in 1..ImgH}
    \cup {CheckerImage(p, q) : p \in Palette, q \in Palette}

\* The before images drawn beside an after image: the solid ones, and the
\* after image itself.
SolidImages == {Uniform(ImgW, ImgH, p) : p \in Palette}

DiffRectLists ==
    {<<>>, <<FullFrame>>, <<Region(0, 0, 2, 4)>>,
     <<Region(0, 0, 2, 4), Region(1, 2, 3, 2)>>, <<Region(4, 0, 2, 4)>>}

InitDiff ==
    /\ after \in Images
    /\ before \in SolidImages \cup {after}
    /\ threshold \in Thresholds
    /\ ignore_rects \in DiffRectLists
    /\ pc = "call"
    /\ NoLocals
    /\ IgnoreIdle /\ ServerIdle

\* _compute_diff with the score taken before the ignore regions are applied:
\* a faulty variant of CallComputeDiff.
CallComputeDiffScoreFirst ==
    /\ pc = "call"
    /\ gray' = BGR2Gray(AbsDiff(before, after))
    /\ raw' = Threshold(gray', threshold)
    /\ opened' = MorphOpen(raw')
    /\ changed_pixels' = CountNonZero(opened')
    /\ mask' = ApplyIgnoreRects(opened', ignore_rects)
    /\ diff_pct' = DiffPct(changed_pixels', Height(mask') * Width(mask'))
    /\ vis' = AddWeighted(after, Overlay(mask'))
    /\ pc' = "done"
    /\ UNCHANGED <<before, after, threshold, ignore_rects>>
    /\ UNCHANGED <<mask0, rects, calls, maskP, permDone, perm>>
    /\ UNCHANGED serverVars

\* One call of _compute_diff(before, after, threshold, ignore_rects), from
\* entry to return.
CallComputeDiff ==
    /\ pc = "call"
    /\ gray' = BGR2Gray(AbsDiff(before, after))
    /\ raw' = Threshold(gray', threshold)
    /\ opened' = MorphOpen(raw')
    /\ mask' = ApplyIgnoreRects(opened', ignore_rects)
    /\ changed_pixels' = CountNonZero(mask')
    /\ diff_pct' = DiffPct(changed_pixels', Height(mask') * Width(mask'))
    /\ vis' = AddWeighted(after, Overlay(mask'))
    /\ pc' = "done"
    /\ UNCHANGED <<before, after, threshold, ignore_rects>>
    /\ UNCHANGED <<mask0, rects, calls, maskP, permDone, perm>>
    /\ UNCHANGED serverVars

NextDiff == CallComputeDiff

SpecDiff == InitDiff /\ [][NextDiff]_vars

\* ------------------------------------------------ the comparison store

\* A directory of DATA_ROOT left by an earlier run of the service.
OldIds == {0}

\* What a directory holds: metadata.json and the four images, the images
\* alone, or nothing usable.
DirStates == {"meta", "images", "none"}

\* The record create_comparison builds (its fields other than id and
\* threshold are functions of these and of the clock).
NewRecord(id, t) == [id |-> id, threshold |-> t, full |-> TRUE]

\* _load_record's reconstructed minimal record.
MinimalRecord(id) == [id |-> id, full |-> FALSE]

\* Whether _load_record(id) returns a record rather than None.
Loadable(id) == id \in DOMAIN disk /\ disk[id] \in {"meta", "images"}

\* _load_record(id), where it returns a record.
LoadRecord(id) ==
    IF disk[id] = "meta" THEN NewRecord(id, 25) ELSE MinimalRecord(id)

\* HISTORY.append(x) on a deque(maxlen=50): a full deque drops its oldest.
DequeAppend(h, x) ==
    IF Len(h) = HistoryMaxLen THEN Append(Tail(h), x) ELSE Append(h, x)

\* list(h)[-limit:] without the reversal: a faulty variant of ListIds.
ListIdsOldestFirst(h, limit) ==
    LET k == Min(limit, Len(h))
    IN  [i \in 1..k |-> h[Len(h) - k + i]]

\* list(h)[-limit:][::-1]
ListIds(h, limit) ==
    LET k == Min(limit, Len(h))
    IN  [i \in 1..k |-> h[Len(h) - i + 1]]

\* A request: the threshold form field, whether ignore_json parses to a list,
\* and whether each upload decodes.
Requests ==
    [threshold : {-1, 25, 256}, ignore_ok : BOOLEAN,
     before_ok : BOOLEAN, after_ok : BOOLEAN]

\* Validation that lets any threshold through: a faulty variant of Validate.
ValidateNoThreshold(req) ==
    IF ~req.ignore_ok THEN "ignore_json must be a JSON array"
    ELSE IF ~req.before_ok \/ ~req.after_ok THEN "Could not decode image"
    ELSE "ok"

\* The checks create_comparison makes, in order, before it computes anything.
Validate(req) ==
    IF ~(0 <= req.threshold /\ req.threshold <= 255)
    THEN "threshold must be in [0, 255]"
    ELSE IF ~req.ignore_ok THEN "ignore_json must be a JSON array"
    ELSE IF ~req.before_ok \/ ~req.after_ok THEN "Could not decode image"
    ELSE "ok"

\* The limit values requested (Query(10, ge=1, le=50)).
Limits == {1, 2, 3, 10, 25, 49, 50}

Init ==
    /\ STORE = <<>>
    /\ HISTORY = <<>>
    /\ disk \in [OldIds -> DirStates]
    /\ nextId = 1
    /\ resp = [op |-> "none"]
    /\ IgnoreIdle /\ DiffIdle

\* POST /comparison
CreateComparison(req) ==
    /\ nextId <= MaxCreate
    /\ IF Validate(req) # "ok"
       THEN /\ resp' = [op |-> "create", req |-> req, status |-> 400,
                        detail |-> Validate(req)]
            /\ UNCHANGED <<STORE, HISTORY, disk, nextId>>
       ELSE LET comp_id == nextId
                record == NewRecord(comp_id, req.threshold)
            IN  /\ STORE' = [i \in DOMAIN STORE \cup {comp_id} |->
                               IF i = comp_id THEN record ELSE STORE[i]]
                /\ HISTORY' = DequeAppend(HISTORY, comp_id)
                /\ disk' = [i \in DOMAIN disk \cup {comp_id} |->
                               IF i = comp_id THEN "meta" ELSE disk[i]]
                /\ nextId' = nextId + 1
                /\ resp' = [op |-> "create", req |-> req, status |-> 200,
                            body |-> record]
    /\ UNCHANGED ignoreVars /\ UNCHANGED diffVars

\* GET /comparison/{comp_id}
GetComparison(comp_id) ==
    /\ IF comp_id \in DOMAIN STORE
       THEN /\ resp' = [op |-> "get", id |-> comp_id, status |-> 200,
                        body |-> STORE[comp_id]]
            /\ UNCHANGED STORE
       ELSE IF Loadable(comp_id)
       THEN /\ STORE' = [i \in DOMAIN STORE \cup {comp_id} |->
                           IF i = comp_id THEN LoadRecord(comp_id) ELSE STORE[i]]
            /\ resp' = [op |-> "get", id |-> comp_id, status |-> 200,
                        body |-> LoadRecord(comp_id)]
       ELSE /\ resp' = [op |-> "get", id |-> comp_id, status |-> 404]
            /\ UNCHANGED STORE
    /\ UNCHANGED <<HISTORY, disk, nextId>>
    /\ UNCHANGED ignoreVars /\ UNCHANGED diffVars

\* The items list_comparisons builds from the ids: STORE.get(cid) or
\* _load_record(cid), with the None entries dropped.
ListItems(ids) ==
    LET kept == SelectSeq(ids, LAMBDA cid : cid \in DOMAIN STORE \/ Loadable(cid))
    IN  [i \in 1..Len(kept) |->
            IF kept[i] \in DOMAIN STORE THEN STORE[kept[i]]
            ELSE LoadRecord(kept[i])]

\* GET /comparisons?limit=
ListComparisons(limit) ==
    /\ resp' = [op |-> "list", limit |-> limit, status |-> 200,
                items |-> ListItems(ListIds(HISTORY, limit)),
                count |-> Len(ListItems(ListIds(HISTORY, limit)))]
    /\ UNCHANGED <<STORE, HISTORY, disk, nextId>>
    /\ UNCHANGED ignoreVars /\ UNCHANGED diffVars

Next ==
    \/ \E req \in Requests : CreateComparison(req)
    \/ \E comp_id \in OldIds \cup (1..nextId) : GetComparison(comp_id)
    \/ \E limit \in Limits : ListComparisons(limit)

Spec == Init /\ [][Next]_vars

\* ======================================================= claims: SpecIgnore

\* The rounded absolute rectangle of a region, before any clamping.
RoundedRect(r, w, h) ==
    LET x == IF "x" \in DOMAIN r THEN r.x ELSE 0
        y == IF "y" \in DOMAIN r THEN r.y ELSE 0
        rw == IF "w" \in DOMAIN r THEN r.w ELSE 0
        rh == IF "h" \in DOMAIN r THEN r.h ELSE 0
    IN  [x1 |-> RoundHalfEven(x * w, 4), y1 |-> RoundHalfEven(y * h, 4),
         x2 |-> RoundHalfEven((x + rw) * w, 4),
         y2 |-> RoundHalfEven((y + rh) * h, 4)]

\* The cells of the w x h grid inside the rounded rectangle.
GridCellsIn(r, w, h) ==
    {c \in (0..(w - 1)) \X (0..(h - 1)) :
        InSlice(RoundedRect(r, w, h), c[1], c[2])}

\* One call with a single region has returned.
OneRegionApplied == calls = 1 /\ Len(rects) = 1

\* C2 (as claimed): a region whose rounded rectangle shares no cell with the
\* grid leaves every mask cell as it was.
C2_OutsideRegionNoEffect ==
    (OneRegionApplied /\ GridCellsIn(rects[1], ImgW, ImgH) = {})
        => mask = mask0

\* C3: a region whose rounded rectangle overlaps the grid clears exactly the
\* cells of the intersection and leaves every other cell as it was; on a
\* 100 x 100 mask {x:0.5, y:0.5, w:1, h:1} is the slice [50:100, 50:100].
C3_ClearsExactlyIntersection ==
    /\ (OneRegionApplied /\ GridCellsIn(rects[1], ImgW, ImgH) # {})
          => \A y \in 1..ImgH, x \in 1..ImgW :
                mask[y][x] =
                    IF <<x - 1, y - 1>> \in GridCellsIn(rects[1], ImgW, ImgH)
                    THEN 0 ELSE mask0[y][x]
    /\ ClampRect(ExampleRegion, 100, 100) =
          [x1 |-> 50, y1 |-> 50, x2 |-> 100, y2 |-> 100]

\* C3 witness: the example region, partly outside the grid, has cleared part
\* of an all-changed mask.
C3_Witness ==
    /\ OneRegionApplied /\ rects[1] = ExampleRegion
    /\ mask0 = Uniform(ImgW, ImgH, 255)
    /\ mask # mask0 /\ mask # Uniform(ImgW, ImgH, 0)

\* The region with its missing fields given as 0.
Filled(r) == [k \in Fields |-> IF k \in DOMAIN r THEN r[k] ELSE 0]

\* C4 (as claimed): a region missing one or more fields leaves the mask as it was.
C4_MissingFieldNoOp ==
    (OneRegionApplied /\ DOMAIN rects[1] # Fields) => mask = mask0

\* C4 (amended): a region missing fields acts as the same region with those
\* fields given as 0, and is a no-op when both x and w, or both y and h, are
\* missing.
C4_MissingFieldIsZero ==
    (OneRegionApplied /\ DOMAIN rects[1] # Fields) =>
        /\ mask = ApplyIgnoreRects(mask0, <<Filled(rects[1])>>)
        /\ ({"x", "w"} \cap DOMAIN rects[1] = {}
              \/ {"y", "h"} \cap DOMAIN rects[1] = {}) => mask = mask0

\* C4 witness: a region missing only x has cleared cells; it acts as x = 0.
C4_Witness ==
    /\ OneRegionApplied /\ DOMAIN rects[1] = {"y", "w", "h"}
    /\ mask # mask0

\* C5: the list applied once or twice, and the list applied in any other
\* order, give the same mask.
C5_OrderAndRepetitionIrrelevant ==
    (calls >= 1 /\ permDone) => mask = maskP

\* C5 witness: two different regions, both of which clear cells the other
\* does not, applied twice in order and once in the opposite order.
C5_Witness ==
    /\ calls = 2 /\ permDone /\ Len(rects) = 2 /\ perm = <<2, 1>>
    /\ IgnoreRect(mask0, rects[1]) # mask
    /\ IgnoreRect(mask0, rects[2]) # mask

\* ========================================================= claims: SpecDiff

Cells == (1..ImgW) \X (1..ImgH)

\* C1 (as claimed): every overlay pixel whose mask cell is unchanged equals
\* the after pixel.
C1_UnchangedPixelsPassThrough ==
    pc = "done" =>
        \A c \in Cells :
            mask[c[2]][c[1]] = 0 => vis[c[2]][c[1]] = after[c[2]][c[1]]

\* The 1-based cells the regions of a list cover on the grid.
IgnoredCells(rs) ==
    {c \in Cells : \E i \in 1..Len(rs) :
        <<c[1] - 1, c[2] - 1>> \in GridCellsIn(rs[i], ImgW, ImgH)}

\* C6: every cell inside an ignore rectangle is unchanged in the final mask
\* and the score counts none of them; a full-frame region gives a score of 0.
C6_IgnoredCellsNotScored ==
    pc = "done" =>
        /\ \A c \in IgnoredCells(ignore_rects) : mask[c[2]][c[1]] = 0
        /\ diff_pct =
             <<100 * Cardinality({c \in Cells \ IgnoredCells(ignore_rects) :
                                     mask[c[2]][c[1]] # 0}),
               ImgW * ImgH>>
        /\ (\E i \in 1..Len(ignore_rects) : ignore_rects[i] = FullFrame)
              => diff_pct[1] = 0

\* C6 witness: a region has suppressed a change that survived the noise
\* filter, while changes outside it are still scored.
C6_Witness ==
    /\ pc = "done"
    /\ \E c \in IgnoredCells(ignore_rects) : opened[c[2]][c[1]] # 0
    /\ diff_pct[1] > 0

\* C7: after thresholding a pixel is changed exactly when its magnitude is
\* strictly above the threshold; threshold 0 marks every nonzero magnitude
\* and threshold 255 marks none.
C7_StrictThreshold ==
    pc = "done" =>
        /\ \A c \in Cells :
             (raw[c[2]][c[1]] = 255 <=> gray[c[2]][c[1]] > threshold)
             /\ raw[c[2]][c[1]] \in {0, 255}
        /\ threshold = 0 =>
             \A c \in Cells :
                (raw[c[2]][c[1]] = 255 <=> gray[c[2]][c[1]] # 0)
        /\ threshold = 255 => \A c \in Cells : raw[c[2]][c[1]] = 0

\* C7 witness: one pixel's magnitude equals a positive threshold and another's
\* exceeds it.
C7_Witness ==
    /\ pc = "done" /\ threshold > 0
    /\ \E c \in Cells : gray[c[2]][c[1]] = threshold
    /\ \E c \in Cells : gray[c[2]][c[1]] > threshold

\* C8: identical before and after give a mask with no changed cell and a
\* change percentage of 0, whatever the threshold and the ignore regions.
C8_IdenticalImagesScoreZero ==
    (pc = "done" /\ before = after) =>
        /\ \A c \in Cells : mask[c[2]][c[1]] = 0
        /\ changed_pixels = 0
        /\ diff_pct[1] = 0

\* C8 witness: a non-uniform image compared with itself at threshold 0.
C8_Witness ==
    /\ pc = "done" /\ before = after /\ threshold = 0
    /\ before \notin SolidImages

\* ============================================================= claims: Spec

\* Whether a create request is one that must fail.
MustFail(req) ==
    \/ req.threshold < 0 \/ req.threshold > 255
    \/ ~req.ignore_ok \/ ~req.before_ok \/ ~req.after_ok

\* Every record held or returned belongs to a request that passed validation.
NoFailedRecord(rec) == rec.full => rec.threshold \in 0..255

\* C9: a failing create request is answered with an error and leaves STORE,
\* HISTORY and the data directory as they were; no record held in STORE or
\* returned by get or list comes from a failed request.
C9_FailedCreateLeavesNoTrace ==
    /\ [][(resp'.op = "create" /\ MustFail(resp'.req)) =>
            /\ resp'.status = 400
            /\ STORE' = STORE /\ HISTORY' = HISTORY /\ disk' = disk]_vars
    /\ [](/\ \A id \in DOMAIN STORE : NoFailedRecord(STORE[id])
          /\ \A i \in 1..Len(HISTORY) : HISTORY[i] \in DOMAIN STORE
          /\ (resp.op = "get" /\ resp.status = 200) => NoFailedRecord(resp.body)
          /\ resp.op = "list" =>
                \A i \in 1..Len(resp.items) : NoFailedRecord(resp.items[i]))

\* C9 witness: a create request with an out-of-range threshold was refused
\* while earlier comparisons are held.
C9_Witness ==
    /\ resp.op = "create" /\ resp.status = 400 /\ resp.req.threshold = 256
    /\ Len(HISTORY) > 0

\* C10: HISTORY never holds more than 50 ids, and a list request returns the
\* records of the min(limit, creations, 50) newest comparisons, newest
\* first, with count the number of items.
C10_ListReturnsNewest ==
    /\ [](Len(HISTORY) <= 50)
    /\ [][resp'.op = "list" =>
            LET n == nextId - 1
                k == Min(resp'.limit, Min(n, 50))
            IN  /\ resp'.items = [i \in 1..k |-> NewRecord(n - i + 1, 25)]
                /\ resp'.count = Len(resp'.items)]_vars

\* C10 witness: more than 50 comparisons were created and a list request for
\* 50 was answered.
C10_Witness ==
    /\ resp.op = "list" /\ resp.limit = 50 /\ nextId - 1 > 50
    /\ resp.count = 50
====
